---- MODULE Spec2Model ----
(***************************************************************************)
(* Model of the Voyager MaRC harvester (src/harvest.py): record            *)
(* extraction, quarantine of unprocessable files, batch assembly into      *)
(* collection documents, and the Record version history.                   *)
(*                                                                         *)
(* File names are sequences of naturals: <<2>> is a base name and          *)
(* <<2, 0, 1>> is that name followed by the suffixes "-0" and "-1".        *)
(***************************************************************************)
EXTENDS Integers, Sequences, FiniteSets, TLC

\* ---------------------------------------------------------------- bounds
\* number of archives waiting in TAR_DOWNLOADS
MaxTars == 2
\* number of member files of one archive
MaxFiles == 2
\* number of directories holding the files handed to Record.add_version
MaxDirs == 3
\* number of Record objects constructed
MaxRecords == 2
\* number of add_version calls made on the Record objects together
MaxCalls == 3
\* archives the server hands out over all runs
MaxGets == 3
\* harvest.py is run again while the error directory holds no more entries
\* than this
MaxErrors == 4

\* ------------------------------------------------------- program constants
COLLECTION_START == [kind |-> "collection", el |-> "", xmlns |-> TRUE]
COLLECTION_END == [kind |-> "/collection", el |-> "", xmlns |-> FALSE]
CREATE_UPDATE == "CREATE_UPDATE"
DELETED == "deleted"
NO_DIFFERENCE == "NO_DIFFERENCE"
\* Python's None, for a str-valued slot
None == "None"

\* ------------------------------------------------------------ file names
TarNames == 1..MaxTars
FileNames == {<<n>> : n \in 1..MaxFiles}
\* os.path.basename of the archive of batch t ("<t>.tar.gz")
TarBase(t) == <<100 + t>>

RECURSIVE Less(_, _)
\* str comparison of two names, as list.sort() applies it
Less(s, t) ==
    IF s = <<>> THEN t # <<>>
    ELSE IF t = <<>> THEN FALSE
    ELSE IF Head(s) # Head(t) THEN Head(s) < Head(t)
    ELSE Less(Tail(s), Tail(t))

RECURSIVE Unsorted(_)
\* the names of S as a directory listing that was never sorted may give
\* them: here largest first
Unsorted(S) ==
    IF S = {} THEN <<>>
    ELSE LET m == CHOOSE x \in S : \A y \in S \ {x} : Less(y, x)
         IN <<m>> \o Unsorted(S \ {m})

RECURSIVE Sorted(_)
\* xml_fps.sort(): the names of S in ascending order
Sorted(S) ==
    IF S = {} THEN <<>>
    ELSE LET m == CHOOSE x \in S : \A y \in S \ {x} : Less(x, y)
         IN <<m>> \o Sorted(S \ {m})

RECURSIVE UnsortedNat(_)
\* the batch directory paths of S in an order a list that was never sorted
\* may have: here largest first
UnsortedNat(S) ==
    IF S = {} THEN <<>>
    ELSE LET m == CHOOSE x \in S : \A y \in S : y <= x
         IN <<m>> \o UnsortedNat(S \ {m})

RECURSIVE SortedNat(_)
\* the batch directory paths of S in ascending order
SortedNat(S) ==
    IF S = {} THEN <<>>
    ELSE LET m == CHOOSE x \in S : \A y \in S : x <= y
         IN <<m>> \o SortedNat(S \ {m})

\* the function f without the key k
Without(f, k) == [x \in DOMAIN f \ {k} |-> f[x]]

\* --------------------------------------------------------- file contents
\* an element inside <metadata>: its identity and whether it is in MRX_NS
E(el) == [el |-> el, marcns |-> TRUE]

\* a well-formed OAI-PMH document with a header block
F(ident, date, status, meta) ==
    [xml |-> TRUE, header |-> TRUE, ident |-> ident, date |-> date,
     status |-> status, meta |-> meta]

\* a file that is not XML at all
NotXml ==
    [xml |-> FALSE, header |-> FALSE, ident |-> "absent", date |-> "absent",
     status |-> "absent", meta |-> <<>>]
\* well-formed XML without ListRecords/record/header
NoHeader ==
    [xml |-> TRUE, header |-> FALSE, ident |-> "absent", date |-> "absent",
     status |-> "absent", meta |-> <<E("p1")>>]
NoIdent == F("absent", "2013-03-01", "absent", <<E("p1")>>)
GoodA == F("c1", "2013-03-01", "absent", <<E("p1")>>)
GoodB == F("c2", "absent", "other", <<E("p2"), E("p1")>>)
GoodCr == F("c1", "03/02/2013", "", <<E("p2cr")>>)
GoodC == F("c1", "2013-03-02", "absent", <<E("p2")>>)
Del == F("c1", "bad", "deleted", <<E("p1")>>)
NoMeta == F("c2", "2013-03-01", "absent", <<>>)
DelNoId == F("empty", "2013-03-01", "deleted", <<E("p2")>>)
BadDate == F("c1", "bad", "absent", <<E("p1")>>)

\* a member that is a directory: ET.parse of its path raises IOError
SubDir ==
    [xml |-> FALSE, header |-> FALSE, ident |-> "absent", date |-> "absent",
     status |-> "directory", meta |-> <<>>]

\* the member files an archive of the model may hold
BatchKinds == {GoodA, GoodB, Del, NotXml, NoMeta, DelNoId}

\* ---------------------------------------------------- MetadataRecordReader
\* ET.tostring(record_e, encoding='UTF-8').split('?>')[-1].strip()
Tostring(e) == [kind |-> "record", el |-> e.el, xmlns |-> e.marcns]

\* mrx.replace(' xmlns="%s"' % MRX_NS, '')
StripNs(mrx) == [mrx EXCEPT !.xmlns = FALSE]

\* header.find('identifier').text
IdentText(c) == IF c.ident = "empty" THEN None ELSE c.ident

\* a status that is one of the two named constants whatever the attribute
EitherStatus(c) == IF c.status = "deleted" THEN DELETED ELSE CREATE_UPDATE

\* status_attr if status_attr else CREATE_UPDATE
Status(c) == IF c.status \in {"absent", ""} THEN CREATE_UPDATE ELSE c.status

\* an extraction that also reads the datestamp, as extract_header_vals does
extract_with_datestamp(c) ==
    IF ~c.xml \/ ~c.header \/ c.ident = "absent"
       \/ c.date \in {"absent", "bad"}
    THEN [tag |-> "HarvesterException"]
    ELSE IF c.meta = <<>>
    THEN [tag |-> "AttributeError"]
    ELSE [tag |-> "ok", control |-> IdentText(c), status |-> Status(c),
          mrx |-> StripNs(Tostring(c.meta[1]))]

\* Record.extract_control_status_mrx: "HarvesterException" when the try
\* block raises (the file is quarantined by the exception's constructor),
\* "AttributeError" when ET.tostring(None) raises in the else block.
extract_control_status_mrx(c) ==
    IF ~c.xml \/ ~c.header \/ c.ident = "absent"
    THEN [tag |-> "HarvesterException"]
    ELSE IF c.meta = <<>>
    THEN [tag |-> "AttributeError"]
    ELSE [tag |-> "ok",
          control |-> IdentText(c),
          status |-> Status(c),
          mrx |-> StripNs(Tostring(c.meta[1]))]

\* ------------------------------------------------------------ QuarantineSink
\* the destination when duplicates are not accounted for
FirstPath(dir, new_path, c) == new_path

RECURSIVE FreePath(_, _, _)
\* the while loop of HarvesterException.__init__: new_path and c
FreePath(dir, new_path, c) ==
    IF new_path \in DOMAIN dir
    THEN FreePath(dir, Append(new_path, c), c + 1)
    ELSE new_path

\* new_path as HarvesterException.__init__ computes it for basename bn
NewPath(dir, bn) == FreePath(dir, bn, 0)

\* an exception whose constructor leaves the file where it is
NotMoved(dir, bn, c) == dir

\* the error directory after shutil.move(fp, new_path) of a file with
\* basename bn and content c
Quarantined(dir, bn, c) ==
    [n \in DOMAIN dir \cup {NewPath(dir, bn)} |->
        IF n = NewPath(dir, bn) THEN c ELSE dir[n]]

\* ------------------------------------------------------------------ state
VARIABLES
    tars,          \* TAR_DOWNLOADS: archive name -> archive
    tmp,           \* TMP_UNPACK: batch directory -> (file name -> content)
    err,           \* ERROR_DIR: entry name -> content
    out,           \* FINAL_XML_DIR: batch name -> what was written to <name>.mrx
    ledger,        \* DELETE_IDS_FP: the lines appended
    fetched,       \* the number of archives sftp_client.get has downloaded
    pc,            \* position of the run (__main__)
    todo,          \* process_tarball_dir: tar_fps not yet visited
    unpacked_dps,  \* process_tarball_dir: unpacked_dps
    dps,           \* map(process_file_dir, ...): directories still to process
    dp,            \* process_file_dir: the directory in hand
    xml_fps,       \* process_file_dir: sorted files not yet visited
    exc,           \* the exception that ended the run, or None
    listed,        \* batch -> the files os.listdir(dp) found
    opened,        \* the output documents opened for writing, in order
    returned,      \* batches on which process_file_dir returned normally
    moved,         \* the last "Could not handle .. Moved to .." warning
                   \* logged and the number of such warnings so far
    recs,          \* Record objects: id -> fields (diffs is a list reference)
    lists,         \* list objects: reference -> the list; 0 is the default []
    calls,         \* number of add_version calls made
    last,          \* the last add_version call: record, file values, outcome
    added,         \* record id -> number of add_version calls that returned
    call,          \* a single call of a function: its name and arguments
    result         \* what that call returned or raised

fsvars == <<tars, tmp, err, out, ledger, fetched>>
runvars == <<pc, todo, unpacked_dps, dps, dp, xml_fps, exc>>
histvars == <<listed, opened, returned, moved>>
recvars == <<recs, lists, calls, last, added>>
fnvars == <<call, result>>
vars == <<fsvars, runvars, histvars, recvars, fnvars>>

\* no warning logged yet
NoMove == [n |-> 0, area |-> "", dir |-> 0, name |-> <<>>, to |-> <<>>]

\* no add_version call made yet
NoCall ==
    [n |-> 0, rec |-> 0, ok |-> FALSE, control |-> "None", stamp |-> 0,
     mrx |-> [kind |-> "None", el |-> "", xmlns |-> FALSE]]

\* no single function call is under way
NoFnCall == [fn |-> ""]
\* no call has ended
NoResult == [tag |-> ""]

\* every function from a subset of S to T
PartialFns(S, T) == UNION {[D -> T] : D \in SUBSET S}

\* an empty directory, an empty mapping
Empty == [x \in {} |-> {}]

\* the archives harvest() may have downloaded: one that expands, one that
\* tarfile.open rejects, and two whose extractall fails part-way, after a
\* file, or after a file and a directory
Archives ==
    {[kind |-> "good", files |-> fs] : fs \in PartialFns(FileNames, BatchKinds)}
    \cup {[kind |-> "corrupt", files |-> Empty]}
    \cup {[kind |-> "partial", files |-> [n \in {<<1>>} |-> GoodA]]}
    \cup {[kind |-> "partial",
           files |-> [n \in {<<1>>, <<2>>} |->
                         IF n = <<1>> THEN GoodA ELSE SubDir]]}

\* state after the first import of harvest.py: the four working directories
\* were missing and are created empty, and no ledger exists
Init ==
    /\ tars = Empty
    /\ tmp = Empty
    /\ err = Empty
    /\ out = Empty
    /\ ledger = <<>>
    /\ fetched = 0
    /\ pc = "harvest"
    /\ todo = {}
    /\ unpacked_dps = <<>>
    /\ dps = <<>>
    /\ dp = 0
    /\ xml_fps = <<>>
    /\ exc = None
    /\ listed = Empty
    /\ opened = <<>>
    /\ returned = {}
    /\ moved = NoMove
    /\ recs = Empty
    /\ lists = [l \in {0} |-> <<>>]
    /\ calls = 0
    /\ last = NoCall
    /\ added = Empty
    /\ call = NoFnCall
    /\ result = NoResult

\* harvest.py is run again after a run has ended, normally or with an
\* exception: the import finds the working directories and creates none,
\* so that the archives, batch directories, error entries, documents and
\* ledger lines the earlier runs left are all still there; the variables
\* of the process and its log start afresh
Import ==
    /\ pc \in {"done", "raised"}
    /\ Cardinality(DOMAIN err) <= MaxErrors
    /\ pc' = "harvest"
    /\ todo' = {}
    /\ unpacked_dps' = <<>>
    /\ dps' = <<>>
    /\ dp' = 0
    /\ xml_fps' = <<>>
    /\ exc' = None
    /\ listed' = Empty
    /\ opened' = <<>>
    /\ returned' = {}
    /\ moved' = NoMove
    /\ UNCHANGED <<fsvars, recvars, fnvars>>

\* the warning HarvesterException.__init__ logs for the move of the file
\* bn of directory d (of TMP_UNPACK, or TAR_DOWNLOADS itself) into dir
Moved(area, d, bn, dir) ==
    [n |-> moved.n + 1, area |-> area, dir |-> d, name |-> bn,
     to |-> NewPath(dir, bn)]

\* ---------------------------------------------------------------- harvest
\* harvest(): each archive found on the server is downloaded into
\* TAR_DOWNLOADS, whole or not, under its own name, in the place of an
\* archive of that name and next to the others already there. When an
\* exception is raised before open_sftp has returned, nothing is
\* downloaded, the finally clause reads sftp_client unbound and harvest
\* raises UnboundLocalError.
Harvest ==
    /\ pc = "harvest"
    /\ \/ /\ \E G \in SUBSET TarNames :
                /\ fetched + Cardinality(G) <= MaxGets
                /\ fetched' = fetched + Cardinality(G)
                /\ \E got \in [G -> Archives] :
                      tars' = [t \in DOMAIN tars \cup G |->
                                  IF t \in G THEN got[t] ELSE tars[t]]
          /\ pc' = "process_tarball_dir"
          /\ exc' = exc
       \/ /\ tars' = tars
          /\ fetched' = fetched
          /\ pc' = "raised"
          /\ exc' = "UnboundLocalError"
    /\ UNCHANGED <<tmp, err, out, ledger, todo, unpacked_dps, dps, dp,
                   xml_fps, histvars, recvars, fnvars>>

\* --------------------------------------------------------- BatchDiscovery
\* process_tarball_dir: list TAR_DOWNLOADS
ListTarballs ==
    /\ pc = "process_tarball_dir"
    /\ todo' = DOMAIN tars
    /\ unpacked_dps' = <<>>
    /\ pc' = "unpack"
    /\ UNCHANGED <<fsvars, dps, dp, xml_fps, exc, histvars, recvars,
                   fnvars>>

\* os.mkdir(to_dir) and the members extractall has written into it
Extracted(t, files) ==
    [d \in DOMAIN tmp \cup {t} |-> IF d = t THEN files ELSE tmp[d]]

\* the function f on the keys of S only
Restrict(f, S) == [x \in S |-> f[x]]

\* the members of files that are regular files
PlainMembers(files) == {f \in DOMAIN files : files[f] # SubDir}

\* os.listdir(to_dir) names a directory
HasSubDir(files) == \E f \in DOMAIN files : files[f] = SubDir

\* map(os.remove, fps); os.rmdir(to_dir)
Cleanup(dirs, d) == Without(dirs, d)

\* one iteration of the loop of process_tarball_dir: unpack_tarball(tar_fp)
\* and the except/else clauses around it
Unpack(t) ==
    /\ pc = "unpack"
    /\ t \in todo
    /\ todo' = todo \ {t}
    /\ UNCHANGED <<out, ledger, fetched, dps, dp, xml_fps, listed, opened,
                   returned, recvars, fnvars>>
    /\ IF t \in DOMAIN tmp
       THEN \* os.mkdir(to_dir) raises OSError outside the try; the loop's
            \* except Exception quarantines the archive and raises
            /\ err' = Quarantined(err, TarBase(t), tars[t])
            /\ tars' = Without(tars, t)
            /\ moved' = Moved("tar", 0, TarBase(t), err)
            /\ pc' = "raised"
            /\ exc' = "HarvesterException"
            /\ UNCHANGED <<tmp, unpacked_dps>>
       ELSE IF tars[t].kind = "corrupt"
       THEN \* tarfile.open raises: the empty to_dir is removed, the archive
            \* is quarantined, then t.close() in the finally clause raises
            \* UnboundLocalError; the loop's except Exception constructs a
            \* second HarvesterException whose shutil.move finds no file
            /\ err' = Quarantined(err, TarBase(t), tars[t])
            /\ tars' = Without(tars, t)
            /\ moved' = Moved("tar", 0, TarBase(t), err)
            /\ pc' = "raised"
            /\ exc' = "IOError"
            /\ tmp' = Cleanup(Extracted(t, Empty), t)
            /\ UNCHANGED unpacked_dps
       ELSE IF tars[t].kind = "partial" /\ HasSubDir(tars[t].files)
       THEN \* extractall raises; in the except clause os.remove raises
            \* OSError on the member that is a directory, after the
            \* members listed before it are removed; "return to_dir" in
            \* the finally clause discards that exception: the archive
            \* stays where it is and the directory is returned
            /\ \E R \in SUBSET PlainMembers(tars[t].files) :
                  tmp' = Extracted(t, Restrict(tars[t].files,
                                               DOMAIN tars[t].files \ R))
            /\ unpacked_dps' = Append(unpacked_dps, t)
            /\ UNCHANGED <<tars, err, moved, pc, exc>>
       ELSE IF tars[t].kind = "partial"
       THEN \* extractall raises: members and to_dir are removed, the
            \* archive is quarantined; "return to_dir" in the finally
            \* clause discards the HarvesterException
            /\ err' = Quarantined(err, TarBase(t), tars[t])
            /\ tars' = Without(tars, t)
            /\ moved' = Moved("tar", 0, TarBase(t), err)
            /\ unpacked_dps' = Append(unpacked_dps, t)
            /\ tmp' = Cleanup(Extracted(t, tars[t].files), t)
            /\ UNCHANGED <<pc, exc>>
       ELSE \* the members are extracted and the archive is removed
            /\ tmp' = Extracted(t, tars[t].files)
            /\ tars' = Without(tars, t)
            /\ unpacked_dps' = Append(unpacked_dps, t)
            /\ UNCHANGED <<err, moved, pc, exc>>

\* process_tarball_dir: unpacked_dps.sort(); return unpacked_dps
SortDps ==
    /\ pc = "unpack"
    /\ todo = {}
    /\ dps' = SortedNat({unpacked_dps[i] : i \in DOMAIN unpacked_dps})
    /\ pc' = "map"
    /\ UNCHANGED <<fsvars, todo, unpacked_dps, dp, xml_fps, exc, histvars,
                   recvars, fnvars>>

\* --------------------------------------------------------- BatchAssembler
\* a file that stays in the batch directory after it was handled
KeepFile(d, f) == tmp

\* the files of batch directory d without the file f
RemoveFile(d, f) == [tmp EXCEPT ![d] = Without(tmp[d], f)]

\* a listing that is never taken to be empty
AnyListing(files) == TRUE

\* len(xml_fps) > 0
HasFiles(files) == DOMAIN files # {}

\* process_file_dir(dp), lines 290-298 (and 320 when the listing is empty):
\* list and sort the directory, open the output document and write the
\* collection start tag
ListDir ==
    /\ pc = "map"
    /\ dps # <<>>
    /\ UNCHANGED <<tars, err, ledger, fetched, todo, unpacked_dps, moved,
                   recvars, fnvars>>
    /\ IF Head(dps) \notin DOMAIN tmp
       THEN \* os.listdir(dp) raises OSError
            /\ pc' = "raised"
            /\ exc' = "OSError"
            /\ UNCHANGED <<tmp, out, dps, dp, xml_fps, listed, opened,
                           returned>>
       ELSE LET d == Head(dps) IN
            /\ listed' = [b \in DOMAIN listed \cup {d} |->
                             IF b = d THEN tmp[d] ELSE listed[b]]
            /\ IF ~HasFiles(tmp[d])
               THEN \* nothing to write: os.rmdir(dp) and return
                    /\ tmp' = Without(tmp, d)
                    /\ dps' = Tail(dps)
                    /\ returned' = returned \cup {d}
                    /\ UNCHANGED <<out, pc, dp, xml_fps, exc, opened>>
               ELSE /\ out' = [b \in DOMAIN out \cup {d} |->
                                  IF b = d THEN <<COLLECTION_START>>
                                  ELSE out[b]]
                    /\ opened' = Append(opened, d)
                    /\ dp' = d
                    /\ xml_fps' = Sorted(DOMAIN tmp[d])
                    /\ pc' = "files"
                    /\ UNCHANGED <<tmp, dps, exc, returned>>

\* one iteration of the loop of process_file_dir, lines 299-316
ProcessFile ==
    /\ pc = "files"
    /\ xml_fps # <<>>
    /\ LET xml_fp == Head(xml_fps)
           r == extract_control_status_mrx(tmp[dp][xml_fp])
       IN
       /\ UNCHANGED <<tars, fetched, todo, unpacked_dps, dps, dp, listed,
                      opened, returned, recvars, fnvars>>
       /\ IF r.tag = "HarvesterException"
          THEN \* the constructor moved the file; "pass", next file
               /\ err' = Quarantined(err, xml_fp, tmp[dp][xml_fp])
               /\ tmp' = RemoveFile(dp, xml_fp)
               /\ moved' = Moved("tmp", dp, xml_fp, err)
               /\ xml_fps' = Tail(xml_fps)
               /\ UNCHANGED <<out, ledger, pc, exc>>
          ELSE IF r.tag = "AttributeError"
          THEN \* except Exception: raise HarvesterException(e, xml_fp)
               \* moved the file and leaves process_file_dir
               /\ err' = Quarantined(err, xml_fp, tmp[dp][xml_fp])
               /\ tmp' = RemoveFile(dp, xml_fp)
               /\ moved' = Moved("tmp", dp, xml_fp, err)
               /\ pc' = "raised"
               /\ exc' = "HarvesterException"
               /\ UNCHANGED <<out, ledger, xml_fps>>
          ELSE IF r.status = DELETED /\ r.control = None
          THEN \* control + os.linesep raises TypeError in the else clause
               /\ pc' = "raised"
               /\ exc' = "TypeError"
               /\ UNCHANGED <<tmp, err, out, ledger, moved, xml_fps>>
          ELSE /\ IF r.status = DELETED
                  THEN /\ ledger' = Append(ledger, r.control)
                       /\ out' = out
                  ELSE /\ out' = [out EXCEPT ![dp] = Append(@, r.mrx)]
                       /\ ledger' = ledger
               \* os.remove(xml_fp)
               /\ tmp' = RemoveFile(dp, xml_fp)
               /\ xml_fps' = Tail(xml_fps)
               /\ UNCHANGED <<err, moved, pc, exc>>

\* process_file_dir, lines 318-320: write the collection end tag, close the
\* document, os.rmdir(dp)
CloseBatch ==
    /\ pc = "files"
    /\ xml_fps = <<>>
    /\ out' = [out EXCEPT ![dp] = Append(@, COLLECTION_END)]
    /\ UNCHANGED <<tars, err, ledger, fetched, todo, unpacked_dps, dp,
                   xml_fps, listed, opened, moved, recvars, fnvars>>
    /\ IF DOMAIN tmp[dp] # {}
       THEN \* os.rmdir of a directory that still holds files: OSError
            /\ pc' = "raised"
            /\ exc' = "OSError"
            /\ UNCHANGED <<tmp, dps, returned>>
       ELSE /\ tmp' = Without(tmp, dp)
            /\ dps' = Tail(dps)
            /\ returned' = returned \cup {dp}
            /\ pc' = "map"
            /\ exc' = exc

\* __main__: map(...) has visited every directory
Finish ==
    /\ pc = "map"
    /\ dps = <<>>
    /\ pc' = "done"
    /\ UNCHANGED <<fsvars, todo, unpacked_dps, dps, dp, xml_fps, exc,
                   histvars, recvars, fnvars>>

Next ==
    \/ Import
    \/ Harvest
    \/ ListTarballs
    \/ \E t \in TarNames : Unpack(t)
    \/ SortDps
    \/ ListDir
    \/ ProcessFile
    \/ CloseBatch
    \/ Finish

\* ------------------------------------------------------------ VersionHistory
\* no datetime (Python's None in a datetime slot)
NoDate == 0
\* no payload (Python's None in a payload slot)
NoVersion == [kind |-> None, el |-> "", xmlns |-> FALSE]

\* dateutil.parser.parse of a datestamp text: a date as yyyymmdd, NoDate
\* standing for the ValueError of an unparseable text
ParseDate(text) ==
    CASE text = "2013-03-01" -> 20130301
      [] text = "2013-03-02" -> 20130302
      [] text = "03/02/2013" -> 20130302
      [] OTHER -> NoDate

\* datetime.isoformat(): the fields of the date, most significant first
Isoformat(dt) == <<dt \div 10000, (dt \div 100) % 100, dt % 100>>

\* Record.extract_header_vals
extract_header_vals(c) ==
    IF ~c.xml \/ ~c.header \/ c.ident = "absent" \/ c.date = "absent"
       \/ ParseDate(c.date) = NoDate
    THEN [tag |-> "HarvesterException"]
    ELSE [tag |-> "ok", control_no |-> IdentText(c),
          datestamp |-> ParseDate(c.date)]

\* Record.extract_marcxml
extract_marcxml(c) ==
    IF ~c.xml \/ c.meta = <<>>
    THEN [tag |-> "HarvesterException"]
    ELSE [tag |-> "ok", mrx |-> Tostring(c.meta[1])]

\* parseString(xml_str).toprettyxml(encoding='UTF-8', newl='\n'): the
\* rendering; the parser reads a carriage return as a line feed, so the
\* payloads "p2cr" and "p2" have one rendering
Pretty(v) == [v EXCEPT !.el = IF @ = "p2cr" THEN "p2" ELSE @]

\* parseString accepts the payload
Parses(v) == v.kind = "record"

\* the values a diff takes: the sentinel, None, or the unified diff text
\* with its ---/+++ dates and the lines that differ ('' has none)
DiffValue(kind, from, to, lines) ==
    [kind |-> kind, from |-> from, to |-> to, lines |-> lines]
NoDifference == DiffValue(NO_DIFFERENCE, <<>>, <<>>, <<>>)
NoneDiff == DiffValue(None, <<>>, <<>>, <<>>)
EmptyDiff == DiffValue("text", <<>>, <<>>, <<>>)

\* Record._make_diff: the finally clause returns diff whatever was raised
make_diff(prev_xml_str, new_xml_str, prev_date, new_date) ==
    IF prev_xml_str = new_xml_str THEN NoDifference
    ELSE IF ~Parses(prev_xml_str) \/ prev_date = NoDate
            \/ ~Parses(new_xml_str) \/ new_date = NoDate
    THEN NoneDiff
    ELSE IF Pretty(prev_xml_str) = Pretty(new_xml_str) THEN EmptyDiff
    ELSE DiffValue("text", Isoformat(prev_date), Isoformat(new_date),
                   <<Pretty(prev_xml_str), Pretty(new_xml_str)>>)

\* the list object Record.__init__ binds to self.diffs: the one default
\* list (reference 0) unless the caller passes a list of its own
DiffsRef(id, own) == IF own THEN id ELSE 0

\* Record(...): construct a Record, with or without a diffs argument
NewRecord(own) ==
    /\ pc = "api"
    /\ Cardinality(DOMAIN recs) < MaxRecords
    /\ LET id == Cardinality(DOMAIN recs) + 1
           new == [control_no |-> None, last_mod |-> NoDate,
                   diffs |-> DiffsRef(id, own),
                   first_version |-> NoVersion,
                   current_version |-> NoVersion]
       IN /\ recs' = [r \in DOMAIN recs \cup {id} |->
                         IF r = id THEN new ELSE recs[r]]
          /\ added' = [r \in DOMAIN added \cup {id} |->
                          IF r = id THEN 0 ELSE added[r]]
          /\ lists' = IF own
                      THEN [l \in DOMAIN lists \cup {id} |->
                               IF l = id THEN <<>> ELSE lists[l]]
                      ELSE lists
    /\ UNCHANGED <<fsvars, runvars, fnvars, histvars, calls, last>>

\* an assignment of the timestamp along with the control number, before
\* the payload is extracted
SetControlAndStamp(me, h) ==
    [me EXCEPT !.control_no = IF @ = None THEN h.control_no ELSE @,
               !.last_mod = h.datestamp]

\* if self.control_no is None: self.control_no = control_no
SetControl(me, h) ==
    [me EXCEPT !.control_no = IF @ = None THEN h.control_no ELSE @]

\* a Record that takes every snapshot for its first
AlwaysFirst(me) == TRUE

\* self.first_version is None
IsFirst(me) == me.first_version = NoVersion

\* what is remembered of an add_version call on record r with a file of
\* content c: whether it returned, and the values the file holds
Call(r, c, ok) ==
    [n |-> calls + 1, rec |-> r, ok |-> ok,
     control |-> IdentText(c),
     stamp |-> ParseDate(c.date),
     mrx |-> IF c.meta = <<>> THEN NoVersion ELSE Tostring(c.meta[1])]

\* Record.add_version(xml_fp) on record r with the file f of directory d
AddVersion(r, d, f) ==
    /\ pc = "api"
    /\ calls < MaxCalls
    /\ r \in DOMAIN recs
    /\ d \in DOMAIN tmp
    /\ f \in DOMAIN tmp[d]
    /\ calls' = calls + 1
    /\ UNCHANGED <<tars, out, ledger, fetched, runvars, fnvars, listed,
                   opened, returned>>
    /\ LET c == tmp[d][f]
           h == extract_header_vals(c)
           m == extract_marcxml(c)
           me == recs[r]
           control_set == SetControl(me, h)
       IN
       IF ~c.xml
       THEN \* ET.parse(xml_fp) raises ParseError: nothing is moved
            /\ last' = Call(r, c, FALSE)
            /\ UNCHANGED <<tmp, err, moved, recs, lists, added>>
       ELSE IF h.tag # "ok" \/ m.tag # "ok"
       THEN \* HarvesterException from either extractor: the file is
            \* moved; control_no is assigned before extract_marcxml runs
            /\ err' = Quarantined(err, f, c)
            /\ tmp' = RemoveFile(d, f)
            /\ moved' = Moved("tmp", d, f, err)
            /\ recs' = IF h.tag = "ok"
                       THEN [recs EXCEPT ![r] = control_set]
                       ELSE recs
            /\ last' = Call(r, c, FALSE)
            /\ UNCHANGED <<lists, added>>
       ELSE /\ last' = Call(r, c, TRUE)
            /\ added' = [added EXCEPT ![r] = @ + 1]
            /\ UNCHANGED <<tmp, err, moved>>
            /\ IF IsFirst(me)
               THEN /\ recs' = [recs EXCEPT ![r] =
                          [control_set EXCEPT
                              !.last_mod = h.datestamp,
                              !.first_version = m.mrx,
                              !.current_version = m.mrx]]
                    /\ lists' = lists
               ELSE LET diff == make_diff(me.current_version, m.mrx,
                                          me.last_mod, h.datestamp)
                    IN /\ recs' = [recs EXCEPT ![r] =
                              [control_set EXCEPT
                                  !.last_mod = h.datestamp,
                                  !.current_version = m.mrx]]
                       /\ lists' = [lists EXCEPT ![me.diffs] =
                              Append(@, <<h.datestamp, diff>>)]

\* the files handed to add_version
RecordKinds == {GoodA, GoodC, GoodCr, NoMeta, BadDate, NotXml}

\* a program that uses Record on the files of MaxDirs directories holding
\* the same file names
ApiInit ==
    /\ tars = Empty
    /\ \E fs \in [FileNames -> RecordKinds] : tmp = [d \in 1..MaxDirs |-> fs]
    /\ err = Empty
    /\ out = Empty
    /\ ledger = <<>>
    /\ fetched = 0
    /\ pc = "api"
    /\ todo = {}
    /\ unpacked_dps = <<>>
    /\ dps = <<>>
    /\ dp = 0
    /\ xml_fps = <<>>
    /\ exc = None
    /\ listed = Empty
    /\ opened = <<>>
    /\ returned = {}
    /\ moved = NoMove
    /\ recs = Empty
    /\ lists = [l \in {0} |-> <<>>]
    /\ calls = 0
    /\ last = NoCall
    /\ added = Empty
    /\ call = NoFnCall
    /\ result = NoResult

ApiNext ==
    \/ \E own \in BOOLEAN : NewRecord(own)
    \/ \E r \in 1..MaxRecords, d \in 1..MaxDirs, f \in FileNames :
          AddVersion(r, d, f)

\* any use of the Record class
ApiSpec == ApiInit /\ [][ApiNext]_vars

\* ------------------------------------------------------- single calls
\* every shape of file extract_control_status_mrx tells apart: not XML,
\* no header, identifier absent or empty, datestamp absent or
\* unparseable, status absent, empty, deleted or other, and no, one or
\* two elements inside <metadata>
AllFiles ==
    {c \in [xml : BOOLEAN, header : BOOLEAN,
            ident : {"absent", "empty", "c1"},
            date : {"absent", "bad", "2013-03-01"},
            status : {"absent", "", "deleted", "other"},
            meta : {<<>>, <<E("p1")>>, <<E("p1"), E("p2")>>}] :
        /\ c.header => c.xml
        /\ ~c.xml => c.meta = <<>>
        /\ ~c.header =>
              c.ident = "absent" /\ c.date = "absent" /\ c.status = "absent"}

\* a string that is not markup
Garbage == [kind |-> "text", el |-> "garbage", xmlns |-> FALSE]

\* the strings and dates handed to _make_diff
DiffStrings == {Tostring(E("p1")), Tostring(E("p2")), Tostring(E("p2cr")),
                Garbage}
DiffDates == {NoDate, 20130301, 20130302}

\* an exception is raised inside the try block of _make_diff
RaisesInDiff(prev_xml_str, new_xml_str, prev_date, new_date) ==
    /\ prev_xml_str # new_xml_str
    /\ \/ ~Parses(prev_xml_str) \/ prev_date = NoDate
       \/ ~Parses(new_xml_str) \/ new_date = NoDate

\* how a call of _make_diff ends for its caller: "return diff" in the
\* finally clause replaces the exception the except clause re-raised
make_diff_outcome(prev_xml_str, new_xml_str, prev_date, new_date) ==
    [tag |-> "return",
     value |-> make_diff(prev_xml_str, new_xml_str, prev_date, new_date)]

\* one call of extract_control_status_mrx on a file, or of _make_diff on
\* two strings and two dates
FnInit ==
    /\ \/ \E c \in AllFiles :
             /\ call = [fn |-> "extract_control_status_mrx", dir |-> 1,
                        name |-> <<1>>]
             /\ tmp = [d \in {1} |-> [f \in {<<1>>} |-> c]]
       \/ \E p \in DiffStrings, n \in DiffStrings,
             pd \in DiffDates, nd \in DiffDates :
             /\ call = [fn |-> "_make_diff", prev_xml_str |-> p,
                        new_xml_str |-> n, prev_date |-> pd,
                        new_date |-> nd]
             /\ tmp = Empty
    /\ result = NoResult
    /\ tars = Empty
    /\ err = Empty
    /\ out = Empty
    /\ ledger = <<>>
    /\ fetched = 0
    /\ pc = "call"
    /\ todo = {}
    /\ unpacked_dps = <<>>
    /\ dps = <<>>
    /\ dp = 0
    /\ xml_fps = <<>>
    /\ exc = None
    /\ listed = Empty
    /\ opened = <<>>
    /\ returned = {}
    /\ moved = NoMove
    /\ recs = Empty
    /\ lists = [l \in {0} |-> <<>>]
    /\ calls = 0
    /\ last = NoCall
    /\ added = Empty

\* Record.extract_control_status_mrx(fp): the value returned or the
\* exception raised; a HarvesterException has moved the file
CallExtract ==
    /\ pc = "call"
    /\ call.fn = "extract_control_status_mrx"
    /\ LET c == tmp[call.dir][call.name]
           r == extract_control_status_mrx(c)
       IN /\ result' = r
          /\ IF r.tag = "HarvesterException"
             THEN /\ err' = Quarantined(err, call.name, c)
                  /\ tmp' = RemoveFile(call.dir, call.name)
                  /\ moved' = Moved("tmp", call.dir, call.name, err)
             ELSE UNCHANGED <<err, tmp, moved>>
    /\ pc' = "called"
    /\ UNCHANGED <<tars, out, ledger, fetched, todo, unpacked_dps, dps, dp,
                   xml_fps, exc, listed, opened, returned, recvars, call>>

\* Record()._make_diff(prev_xml_str, new_xml_str, prev_date, new_date)
CallMakeDiff ==
    /\ pc = "call"
    /\ call.fn = "_make_diff"
    /\ result' = make_diff_outcome(call.prev_xml_str, call.new_xml_str,
                                   call.prev_date, call.new_date)
    /\ pc' = "called"
    /\ UNCHANGED <<fsvars, todo, unpacked_dps, dps, dp, xml_fps, exc,
                   histvars, recvars, call>>

FnNext == CallExtract \/ CallMakeDiff

\* one call of one of the two functions, on any input
FnSpec == FnInit /\ [][FnNext]_vars

\* one run of the harvester
Spec == Init /\ [][Next]_vars

\* ======================================================== properties
\* ------------------------------------------------------------ batch files
\* the file parses: extract_control_status_mrx returns a record
ParsesOk(c) == c.xml /\ c.header /\ c.ident # "absent" /\ c.meta # <<>>

\* the file parses with a status other than DELETED
Written(c) == ParsesOk(c) /\ c.status # "deleted"

\* the file parses with status DELETED
ParsedDeleted(c) == ParsesOk(c) /\ c.status = "deleted"

\* the payload of a file as the collection document carries it: its first
\* metadata element, without a namespace declaration
PayloadOf(c) == [kind |-> "record", el |-> c.meta[1].el, xmlns |-> FALSE]

\* what a document holds between its first and its last write
Body(doc) == SubSeq(doc, 2, Len(doc) - 1)

\* body lists the payloads of the files of the set W of files, each once,
\* in ascending order of the file names
InNameOrder(body, files, W) ==
    /\ Len(body) = Cardinality(W)
    /\ \E order \in [1..Len(body) -> W] :
          /\ \A i, j \in 1..Len(body) : i < j => Less(order[i], order[j])
          /\ \A i \in 1..Len(body) : body[i] = PayloadOf(files[order[i]])

\* C1: once process_file_dir has returned on a batch that held files, the
\* output document is the collection start tag, then exactly the payloads
\* of the files that parsed with a non-deleted status, each once, in
\* ascending order of their file names, then the collection end tag.
C1_PayloadsInNameOrder ==
    \A d \in returned :
        DOMAIN listed[d] # {} =>
            /\ Len(out[d]) >= 2
            /\ out[d][1] = COLLECTION_START
            /\ out[d][Len(out[d])] = COLLECTION_END
            /\ InNameOrder(Body(out[d]), listed[d],
                   {f \in DOMAIN listed[d] : Written(listed[d][f])})

\* a batch was assembled from two written files with different payloads
C1_Witness ==
    \E d \in returned :
        /\ Cardinality({f \in DOMAIN listed[d] : Written(listed[d][f])}) >= 2
        /\ Len(out[d]) >= 4
        /\ out[d][2] # out[d][3]

\* process_file_dir is no longer at work on the listed batch d
Processed(d) == d \in DOMAIN listed /\ ~(pc = "files" /\ dp = d)

\* the control number c is a line of the deletion ledger
InLedger(c) == \E i \in DOMAIN ledger : ledger[i] = c

\* the payload of the file c is written in the document of batch d
InDocument(d, c) ==
    /\ d \in DOMAIN out
    /\ c.meta # <<>>
    /\ \E i \in DOMAIN out[d] : out[d][i] = PayloadOf(c)

\* C2: when process_file_dir is through with a batch, every file of the
\* batch that parses with status DELETED has its control number in the
\* deletion ledger and no payload in the output document.
C2_DeletedGoToLedger ==
    \A d \in DOMAIN listed :
        Processed(d) =>
            \A f \in DOMAIN listed[d] :
                ParsedDeleted(listed[d][f]) =>
                    /\ InLedger(IdentText(listed[d][f]))
                    /\ ~InDocument(d, listed[d][f])

\* the file cannot be parsed: extract_control_status_mrx raises
Unparseable(c) == ~ParsesOk(c)

\* the content c is held by an entry of the error directory whose name is
\* the name f or f with suffixes
InErrorDir(f, c) ==
    \E n \in DOMAIN err :
        /\ Len(n) >= Len(f)
        /\ SubSeq(n, 1, Len(f)) = f
        /\ err[n] = c

\* C3: when process_file_dir is through with a batch, every file of the
\* batch that cannot be parsed is gone from the batch directory, is in the
\* error directory, and has added nothing to the output document.
C3_UnparseableQuarantined ==
    \A d \in DOMAIN listed :
        Processed(d) =>
            \A f \in DOMAIN listed[d] :
                Unparseable(listed[d][f]) =>
                    /\ d \in DOMAIN tmp => f \notin DOMAIN tmp[d]
                    /\ InErrorDir(f, listed[d][f])
                    /\ ~InDocument(d, listed[d][f])

\* C4: a file that cannot be parsed never makes process_file_dir raise:
\* the step that reads it goes on to the next file of the batch.
C4_NoFileAbortsBatch ==
    [][(pc = "files" /\ xml_fps # <<>>
        /\ Unparseable(tmp[dp][Head(xml_fps)]))
       => (pc' = "files" /\ xml_fps' = Tail(xml_fps))]_vars

\* C5: when process_file_dir is through with a batch, the batch directory
\* is removed.
C5_BatchDirRemoved ==
    \A d \in DOMAIN listed : Processed(d) => d \notin DOMAIN tmp

\* the number of times the output document of batch d was opened
Opens(d) == Cardinality({i \in DOMAIN opened : opened[i] = d})

\* the batch directory the step lists
ListedNow == CHOOSE d \in DOMAIN listed' : d \notin DOMAIN listed

\* C6: process_file_dir opens an output document for a batch exactly when
\* the listing of the batch directory was not empty, and then once: the
\* step that lists a directory with files opens its document and writes
\* the start tag; the step that lists an empty directory opens and
\* changes no document, removes the directory and returns without raising;
\* no other step opens or creates a document (a new run starts with no
\* document opened).
C6_DocumentIffFiles ==
    [][/\ DOMAIN listed' \ DOMAIN listed # {} =>
              IF DOMAIN listed'[ListedNow] # {}
              THEN /\ opened' = Append(opened, ListedNow)
                   /\ Opens(ListedNow) = 0
                   /\ out'[ListedNow] = <<COLLECTION_START>>
              ELSE /\ opened' = opened
                   /\ out' = out
                   /\ ListedNow \notin DOMAIN tmp'
                   /\ ListedNow \in returned'
                   /\ pc' # "raised"
       /\ DOMAIN listed' \ DOMAIN listed = {} =>
              /\ opened' = opened \/ (pc' = "harvest" /\ opened' = <<>>)
              /\ DOMAIN out' = DOMAIN out]_vars

\* an empty batch and a batch with files have both been processed
C6_Witness ==
    /\ \E d \in returned : DOMAIN listed[d] = {}
    /\ \E d \in returned : DOMAIN listed[d] # {} /\ Opens(d) = 1

\* ------------------------------------------------------------ quarantine
\* the step logged a move into the error directory
Quarantines == moved'.n # moved.n

\* the file the step moved is gone from the path it had
SourceGone ==
    /\ moved'.area = "tmp" =>
          (moved'.dir \in DOMAIN tmp' =>
              moved'.name \notin DOMAIN tmp'[moved'.dir])
    /\ moved'.area = "tar" =>
          \A t \in DOMAIN tars' : TarBase(t) # moved'.name

\* C7: every quarantine adds exactly one entry to the error directory,
\* under a name that was free, keeps every entry that was there, and
\* removes the file from its original path; no other step changes the
\* error directory.
C7_QuarantineNeverOverwrites ==
    [][/\ Quarantines =>
             /\ moved'.to \notin DOMAIN err
             /\ DOMAIN err' = DOMAIN err \cup {moved'.to}
             /\ \A n \in DOMAIN err : err'[n] = err[n]
             /\ SourceGone
       /\ ~Quarantines => err' = err]_vars

\* two files with one base name are in the error directory, the second
\* under a suffixed name
C7_Witness ==
    /\ moved.n >= 2
    /\ moved.to # moved.name
    /\ moved.name \in DOMAIN err
    /\ moved.to \in DOMAIN err

\* the first integer n, counting from 0, for which bn-n is free in dir
FirstFreeSuffix(dir, bn) ==
    CHOOSE n \in 0..Cardinality(DOMAIN dir) :
        /\ Append(bn, n) \notin DOMAIN dir
        /\ \A m \in 0..(n - 1) : Append(bn, m) \in DOMAIN dir

\* C8: a quarantined file is named by its base name when that is free, and
\* else by its base name with the single suffix -n, n the first integer
\* from 0 for which that name is free.
C8_SingleSuffixFirstFree ==
    [][Quarantines =>
          moved'.to = IF moved'.name \notin DOMAIN err THEN moved'.name
                      ELSE Append(moved'.name,
                                  FirstFreeSuffix(err, moved'.name))]_vars

\* ------------------------------------------------------------ version history
\* the diffs of record r
Diffs(r) == lists[recs[r].diffs]

\* C9: a Record on which k >= 1 add_version calls have returned has k - 1
\* diffs; after the first such call diffs is empty and first_version and
\* current_version are the payload of that snapshot.
C9_DiffsOneLessThanVersions ==
    \A r \in DOMAIN recs :
        /\ added[r] >= 1 => Len(Diffs(r)) = added[r] - 1
        /\ (added[r] = 1 /\ last.rec = r /\ last.ok) =>
              /\ Diffs(r) = <<>>
              /\ recs[r].first_version = last.mrx
              /\ recs[r].current_version = last.mrx

\* the step is an add_version call that returned, on a record that
\* already held a version
AddsLaterVersion ==
    /\ last'.n # last.n
    /\ last'.ok
    /\ added[last'.rec] >= 1

\* C10: every add_version call after the first appends one entry to the
\* end of diffs, stamped with the new snapshot's timestamp; its diff is
\* NO_DIFFERENCE exactly when the new payload equals current_version, and
\* otherwise a non-empty diff text whose from/to dates are the previous
\* and the new timestamps.
C10_OneDiffPerLaterVersion ==
    [][AddsLaterVersion =>
          LET r == last'.rec
              old == Diffs(r)
              new == lists'[recs[r].diffs]
              entry == new[Len(new)]
          IN /\ Len(new) = Len(old) + 1
             /\ SubSeq(new, 1, Len(old)) = old
             /\ entry[1] = last'.stamp
             /\ (entry[2].kind = NO_DIFFERENCE) <=>
                    (last'.mrx = recs[r].current_version)
             /\ last'.mrx # recs[r].current_version =>
                    /\ entry[2].kind = "text"
                    /\ entry[2].lines # <<>>
                    /\ entry[2].from = Isoformat(recs[r].last_mod)
                    /\ entry[2].to = Isoformat(last'.stamp)]_vars

\* the step constructs a Record
Constructs == DOMAIN recs' # DOMAIN recs

\* C11: a Record owns its diffs: a newly constructed Record has empty
\* diffs, whatever other Records have accumulated, and an add_version call
\* on one Record leaves the diffs of every other Record as they were.
C11_DiffsOwnedByRecord ==
    [][/\ Constructs =>
             \A r \in DOMAIN recs' \ DOMAIN recs :
                 lists'[recs'[r].diffs] = <<>>
       /\ last'.n # last.n =>
             \A r \in DOMAIN recs \ {last'.rec} :
                 lists'[recs[r].diffs] = Diffs(r)]_vars

\* a call of _make_diff has ended
DiffCalled == pc = "called" /\ call.fn = "_make_diff"

\* C12: when an exception occurs while _make_diff renders or diffs the
\* payloads, the call raises; a value is returned only when none occurred.
C12_DiffExceptionsRaised ==
    DiffCalled =>
        (RaisesInDiff(call.prev_xml_str, call.new_xml_str,
                      call.prev_date, call.new_date)
            <=> result.tag = "raise")


\* the step is an iteration of the loop of process_tarball_dir that
\* quarantines its archive
ExpansionFails == pc = "unpack" /\ moved'.n # moved.n

\* C13: an archive that cannot be expanded is quarantined and nothing
\* more: process_tarball_dir goes on with the next archive without
\* raising and does not return a directory for the failed one, so that
\* process_file_dir never raises for a directory it cannot list.
C13_ExpansionFailureIsolated ==
    [][/\ ExpansionFails =>
              pc' = "unpack" /\ unpacked_dps' = unpacked_dps
       /\ pc = "map" /\ pc' = "raised" => Head(dps) \in DOMAIN tmp]_vars

\* the sequence s is in strictly ascending order
Ascending(s) == \A i, j \in DOMAIN s : i < j => s[i] < s[j]

\* C14: the directories process_tarball_dir returns are in ascending
\* order of name, and process_file_dir handles them in that order: the
\* directories still to be handled are ascending, none of them is smaller
\* than a directory already listed, and the output documents were opened
\* in ascending order.
C14_BatchesInNameOrder ==
    /\ Ascending(dps)
    /\ Ascending(opened)
    /\ \A d \in DOMAIN listed : \A i \in DOMAIN dps : d <= dps[i]
    /\ pc = "map" /\ listed = Empty =>
          {dps[i] : i \in DOMAIN dps}
              = {unpacked_dps[i] : i \in DOMAIN unpacked_dps}

\* two batches were expanded larger name first and both were handled
C14_Witness ==
    /\ Len(unpacked_dps) >= 2
    /\ unpacked_dps[1] > unpacked_dps[2]
    /\ {unpacked_dps[1], unpacked_dps[2]} \subseteq DOMAIN listed
    /\ Len(opened) >= 2

\* process_file_dir is not at work on the document of batch d
LeftOnDisk(d) == Opens(d) > 0 /\ ~(pc = "files" /\ dp = d)

\* the document has the start tag first and nowhere else, the end tag last
\* and nowhere else
Framed(doc) ==
    /\ Len(doc) >= 2
    /\ \A i \in DOMAIN doc :
          /\ doc[i] = COLLECTION_START <=> i = 1
          /\ doc[i] = COLLECTION_END <=> i = Len(doc)

\* C16: every output document process_file_dir has left on disk starts
\* with the collection start tag, ends with the collection end tag, and
\* holds each of them once, whichever files of the batch failed to parse.
C16_DocumentsFramed ==
    \A d \in DOMAIN out : LeftOnDisk(d) => Framed(out[d])


\* a call of extract_control_status_mrx has ended
ExtractCalled == pc = "called" /\ call.fn = "extract_control_status_mrx"

\* the file the call was made on, where it is now
InputFile ==
    IF call.name \in DOMAIN tmp[call.dir] THEN tmp[call.dir][call.name]
    ELSE err[moved.to]

\* the file the call was made on is in the error directory
InputQuarantined ==
    /\ call.name \notin DOMAIN tmp[call.dir]
    /\ moved.n = 1
    /\ moved.to \in DOMAIN err

\* C15: extract_control_status_mrx raises a HarvesterException, which
\* quarantines the file, whenever the file is malformed, has no header
\* block, or has a metadata block that does not hold exactly one payload
\* element; it returns only for a header and exactly one payload element.
C15_ExtractFailsUnlessOnePayload ==
    ExtractCalled =>
        LET c == InputFile IN
        /\ ~c.xml \/ ~c.header \/ Len(c.meta) # 1 =>
              result.tag = "HarvesterException" /\ InputQuarantined
        /\ result.tag = "ok" => c.header /\ Len(c.meta) = 1

\* C19 as stated: the status returned is CREATE_UPDATE or DELETED, and
\* DELETED for the deleted marker only.
C19_StatusOneOfTwo ==
    ExtractCalled /\ result.tag = "ok" =>
        /\ result.status \in {CREATE_UPDATE, DELETED}
        /\ result.status = DELETED <=> InputFile.status = "deleted"

\* C19: the status extract_control_status_mrx returns is the header's
\* status attribute when it is present and not empty, unchanged even when
\* it is not a recognized value, and CREATE_UPDATE otherwise; it is
\* DELETED for the deleted marker only.
C19_StatusIsAttributeOrDefault ==
    ExtractCalled /\ result.tag = "ok" =>
        LET c == InputFile IN
        /\ c.status \in {"absent", ""} => result.status = CREATE_UPDATE
        /\ c.status \notin {"absent", ""} => result.status = c.status
        /\ result.status = DELETED <=> c.status = "deleted"

\* a status attribute that is neither empty nor the deleted marker was
\* returned
C19_Witness ==
    /\ ExtractCalled
    /\ result.tag = "ok"
    /\ InputFile.status = "other"
    /\ result.status = "other"

\* the header of the file has no datestamp that can be parsed
Undated(c) == c.header /\ c.date \in {"absent", "bad"}

\* C20 as stated: a file without a parseable datestamp that a finished
\* batch listed is in the error directory, and neither its payload nor its
\* control number was written.
C20_UndatedQuarantined ==
    \A d \in DOMAIN listed : Processed(d) =>
        \A f \in DOMAIN listed[d] :
            Undated(listed[d][f]) =>
                /\ InErrorDir(f, listed[d][f])
                /\ ~InDocument(d, listed[d][f])
                /\ ~InLedger(IdentText(listed[d][f]))

\* process_file_dir is about to read the next file of the batch
ReadsFile == pc = "files" /\ xml_fps # <<>>

\* the file with a datestamp that can be parsed
Dated(c) == [c EXCEPT !.date = "2013-03-01"]

\* C20: batch processing never reads the datestamp. For a file whose
\* datestamp is absent or unparseable extract_control_status_mrx gives
\* what it gives for the same file with a valid datestamp; the step of
\* process_file_dir that reads the file moves it to the error directory
\* only if the file with a valid datestamp fails to parse as well, and
\* otherwise, when the status is not DELETED, appends its payload to the
\* output document and removes it from the batch directory.
C20_DatestampNotRead ==
    [][ReadsFile /\ Undated(tmp[dp][Head(xml_fps)]) =>
          LET f == Head(xml_fps)
              c == tmp[dp][f]
              r == extract_control_status_mrx(Dated(c))
          IN /\ extract_control_status_mrx(c) = r
             /\ moved'.n # moved.n <=> r.tag # "ok"
             /\ r.tag = "ok" /\ r.status # DELETED =>
                   /\ out'[dp] = Append(out[dp], r.mrx)
                   /\ f \notin DOMAIN tmp'[dp]]_vars

\* a payload and a control number were written for files without a
\* datestamp that can be parsed, and nothing was quarantined
C20_Witness ==
    /\ \E d \in DOMAIN listed : \E f \in DOMAIN listed[d] :
          /\ Processed(d)
          /\ listed[d][f].date = "absent"
          /\ InDocument(d, listed[d][f])
    /\ \E d \in DOMAIN listed : \E f \in DOMAIN listed[d] :
          /\ listed[d][f].date = "bad"
          /\ InLedger(IdentText(listed[d][f]))
    /\ err = Empty


\* the step is an add_version call that returned
AddsVersion == last'.n # last.n /\ last'.ok

\* C17: first_version never changes once it is set, and after every
\* add_version call that returns, current_version and last_mod are the
\* payload and the timestamp of the snapshot just added, whatever diff
\* was recorded for it.
C17_FirstFixedCurrentLatest ==
    [][/\ \A r \in DOMAIN recs :
              recs[r].first_version # NoVersion =>
                  recs'[r].first_version = recs[r].first_version
       /\ AddsVersion =>
              /\ recs'[last'.rec].current_version = last'.mrx
              /\ recs'[last'.rec].last_mod = last'.stamp]_vars

\* a later snapshot with another payload was added: a diff was recorded,
\* and the current version is that of the snapshot, not the first one
C17_Witness ==
    /\ last.ok
    /\ added[last.rec] >= 2
    /\ Diffs(last.rec) # <<>>
    /\ recs[last.rec].current_version = last.mrx
    /\ recs[last.rec].current_version # recs[last.rec].first_version

\* C18: every snapshot a Record accumulates has the Record's control
\* number: when add_version returns, control_no is the control number of
\* the file just added, the first one included.
C18_ControlNumberMatches ==
    [][AddsVersion => recs'[last'.rec].control_no = last'.control]_vars


\* the sequence s is the beginning of the sequence t
IsPrefix(s, t) == Len(s) <= Len(t) /\ SubSeq(t, 1, Len(s)) = s

\* C21: the deletion ledger only grows at its end: what it held before a
\* step is the beginning of what it holds after it. The step that reads a
\* file parsed with status DELETED appends exactly the control number of
\* the file, and every other step leaves the ledger as it is.
C21_LedgerAppendOnly ==
    [][/\ IsPrefix(ledger, ledger')
       /\ IF ReadsFile /\ ParsedDeleted(tmp[dp][Head(xml_fps)])
          THEN ledger' = Append(ledger, IdentText(tmp[dp][Head(xml_fps)]))
          ELSE ledger' = ledger]_vars


\* the step expands an archive into a new batch directory
Expands == DOMAIN tmp' \ DOMAIN tmp # {}

\* the step is the listing of a batch directory by process_file_dir
Lists == DOMAIN listed' \ DOMAIN listed # {}

\* C22 as stated: no archive is expanded while the directory of a batch
\* expanded before it in the run exists, no batch is listed before the
\* directories of the batches listed earlier are removed, and a file is
\* gone from the batch directory before the next one is read.
C22_OneBatchAtATime ==
    [][/\ Expands =>
              \A i \in DOMAIN unpacked_dps :
                  unpacked_dps[i] \notin DOMAIN tmp
       /\ Lists => \A d \in DOMAIN listed : d \notin DOMAIN tmp
       /\ ReadsFile /\ pc' = "files" =>
              Head(xml_fps) \notin DOMAIN tmp'[dp]]_vars

\* C22: process_tarball_dir expands every archive before process_file_dir
\* is called on any batch. From then on batches are handled one at a
\* time: a batch is listed only when every batch listed before it has
\* returned and its directory is removed, and within a batch the file just
\* read is gone from the batch directory and has been written, ledgered or
\* quarantined before the next file is read.
C22_AssembledOneAtATime ==
    [][/\ Expands => listed = Empty
       /\ Lists =>
              /\ todo = {}
              /\ \A d \in DOMAIN listed :
                    d \in returned /\ d \notin DOMAIN tmp
       /\ ReadsFile /\ pc' = "files" =>
              /\ xml_fps' = Tail(xml_fps)
              /\ Head(xml_fps) \notin DOMAIN tmp'[dp]
              /\ \/ moved'.n = moved.n + 1
                 \/ Len(ledger') = Len(ledger) + 1
                 \/ LET c == tmp[dp][Head(xml_fps)] IN
                    /\ Written(c)
                    /\ out'[dp] = Append(out[dp], PayloadOf(c))]_vars

\* two batches were expanded before either was listed, and both have been
\* assembled from files and finalized
C22_Witness ==
    /\ Len(unpacked_dps) >= 2
    /\ Len(opened) >= 2
    /\ \A i \in DOMAIN opened : opened[i] \in returned
    /\ DOMAIN tmp = {}


\* process_tarball_dir is collecting directories, or has returned them
\* and none has been handled yet
JustUnpacked == pc = "unpack" \/ (pc = "map" /\ listed = Empty)

\* C23: every directory process_tarball_dir collects and returns exists
\* and holds the members of its archive: the directory of an archive
\* whose expansion failed is not among them.
C23_ReturnsExpandedDirs ==
    JustUnpacked =>
        /\ \A i \in DOMAIN unpacked_dps : unpacked_dps[i] \in DOMAIN tmp
        /\ \A i \in DOMAIN dps : dps[i] \in DOMAIN tmp

\* the step ends the expansion of archive t without a batch directory of
\* its members: os.mkdir, tarfile.open or extractall raised
FailsToExpand(t) ==
    /\ pc = "unpack"
    /\ t \in todo
    /\ t \notin todo'
    /\ t \in DOMAIN tmp \/ tars[t].kind # "good"

\* C24: when the expansion of an archive fails, the step leaves behind no
\* directory and no member the expansion created, so that the working
\* directory is as it was before the expansion began, and the archive is
\* moved from the downloads into the error directory; the archive is not
\* expanded again.
C24_FailedExpansionCleanedUp ==
    [][/\ \A t \in TarNames :
              FailsToExpand(t) =>
                  /\ tmp' = tmp
                  /\ t \notin DOMAIN tars'
                  /\ \E n \in DOMAIN err' \ DOMAIN err : err'[n] = tars[t]
       /\ pc = "unpack" => todo' \subseteq todo]_vars

\* the number of the conditions of the set S that hold
Count(S) == Cardinality({b \in S : b[2]})

\* the error directory has gained exactly one entry, which holds c
GainsEntry(c) ==
    /\ DOMAIN err \subseteq DOMAIN err'
    /\ \A n \in DOMAIN err : err'[n] = err[n]
    /\ \E n \in DOMAIN err' \ DOMAIN err :
          DOMAIN err' = DOMAIN err \cup {n} /\ err'[n] = c

\* C25: each iteration of process_file_dir that goes on to the next file
\* gives the file exactly one disposition: its payload is appended to the
\* output document, or its control number is appended to the ledger, or
\* the file is moved into the error directory; the other two are left as
\* they were and the file is gone from the batch directory. A batch
\* process_file_dir has returned from has no directory left.
C25_OneDispositionPerFile ==
    [][/\ ReadsFile /\ pc' = "files" =>
              LET f == Head(xml_fps)
                  c == tmp[dp][f]
                  written == out' # out
                  ledgered == ledger' # ledger
                  quarantined == err' # err
              IN /\ Count({<<1, written>>, <<2, ledgered>>,
                           <<3, quarantined>>}) = 1
                 /\ f \notin DOMAIN tmp'[dp]
                 /\ written =>
                       /\ Written(c)
                       /\ out' = [out EXCEPT
                                     ![dp] = Append(@, PayloadOf(c))]
                 /\ ledgered =>
                       /\ ParsedDeleted(c)
                       /\ ledger' = Append(ledger, IdentText(c))
                 /\ quarantined => Unparseable(c) /\ GainsEntry(c)
       /\ \A d \in returned' : d \notin DOMAIN tmp']_vars

\* a batch has returned whose two files went one to the document and one
\* to the error directory, and a control number is in the ledger
C25_Witness ==
    /\ ledger # <<>>
    /\ \E d \in returned : \E f, g \in DOMAIN listed[d] :
          /\ Written(listed[d][f])
          /\ InDocument(d, listed[d][f])
          /\ Unparseable(listed[d][g])
          /\ InErrorDir(g, listed[d][g])


\* the step is an add_version call that raised
FailsToAdd == last'.n # last.n /\ ~last'.ok

\* C26: an add_version call that raises leaves first_version,
\* current_version, last_mod and diffs of the Record, and every list of
\* diffs, as they were before the call, and the number of snapshots the
\* Record has accumulated with them.
C26_FailedCallKeepsVersions ==
    [][FailsToAdd =>
          LET r == last'.rec IN
          /\ recs'[r].first_version = recs[r].first_version
          /\ recs'[r].current_version = recs[r].current_version
          /\ recs'[r].last_mod = recs[r].last_mod
          /\ recs'[r].diffs = recs[r].diffs
          /\ lists' = lists
          /\ added' = added]_vars

\* the payload extraction failed, after the header extraction succeeded,
\* on a Record that holds two snapshots and a diff
C26_Witness ==
    /\ ~last.ok
    /\ last.stamp # NoDate
    /\ last.mrx = NoVersion
    /\ added[last.rec] >= 2
    /\ Diffs(last.rec) # <<>>
    /\ recs[last.rec].last_mod # last.stamp

====
